---- MODULE Spec2Model ----
(***************************************************************************)
(* A model of build_cv.py: the assembly of the CV block list (build_pdf),  *)
(* the QR helper (make_qr), the page footer callback (footer) and the     *)
(* hand-off to the layout engine (doc.build).  A Python dict is a function *)
(* whose DOMAIN is its set of keys; lengths are in millimetres; the       *)
(* non-ASCII characters of the source's texts are written in ASCII        *)
(* (-- for the em dash, | for the middle dot, * for the bullet).          *)
(***************************************************************************)
EXTENDS Naturals, Sequences, FiniteSets, TLC

VARIABLES
    DATA,            \* the CV content record read by build_pdf
    HEADSHOT_PATH,   \* the configured headshot path (None to skip)
    exists_answer,   \* what os.path.exists(HEADSHOT_PATH) answered in this run (FALSE when not asked)
    today,           \* environment: the date date.today() answers
    out_file,        \* environment: the file at the output path (0 = none, n = written by run n)
    run,             \* the number of the current run of build_pdf
    pc,              \* the position of the current run
    exc,             \* the exception the current run raised (NoExc when none)
    parts,           \* the contact entries collected so far
    left_stack,      \* the left-hand header stack
    right_cells,     \* the rows of the right-hand header table
    story,           \* the block list under construction
    idx,             \* the index of the next experience entry
    qr_calls,        \* make_qr invocations in this run, with their url
    handed,          \* the block lists doc.build was called with in this run
    page,            \* the page being rendered
    canvas,          \* the canvas of the page being rendered
    drawn,           \* per footer invocation, the labels it drew
    content_saw,     \* per rendered page, the canvas state its content starts from
    writes,          \* the file writes of this run
    prev             \* what the previous run handed over and drew (NoPrev in run 1)

vars == <<DATA, HEADSHOT_PATH, exists_answer, today, out_file, run, pc, exc, parts,
          left_stack, right_cells, story, idx, qr_calls, handed, page, canvas,
          drawn, content_saw, writes, prev>>

----------------------------------------------------------------------------
(* Bounds of the model *)

MaxJobs == 2
MaxBullets == 2
MaxRuns == 2
MaxDay == 4
PageCapacity == 16

----------------------------------------------------------------------------
(* CONFIG *)

LANDING_URL == "https://apschram.github.io/curriculum-vitae/"
PDF_URL == "https://apschram.github.io/curriculum-vitae/Alexander_Schram_CV.pdf"
LINKEDIN_URL == "https://www.linkedin.com/in/alexander-schram-17ab6265/"
GITHUB_URL == "https://github.com/apschram/curriculum-vitae"
OUTPUT_PDF == "Alexander_Schram_CV.pdf"
BASE_FONT == "Helvetica"
BOLD_FONT == "Helvetica-Bold"

(* Python's None, and the truth value of a text or of None *)
None == "<None>"
Truthy(v) == v # None /\ v # ""
(* dict.get(k) and dict.get(k, default) *)
Get(d, k) == IF k \in DOMAIN d THEN d[k] ELSE None
GetOr(d, k, default) == IF k \in DOMAIN d THEN d[k] ELSE default

----------------------------------------------------------------------------
(* CONTENT *)

Link(label, url) == [label |-> label, url |-> url]
Job(company, role, dates, bullets) ==
    [company |-> company, role |-> role, dates |-> dates, bullets |-> bullets]

(* The record of the source.  The links mapping is the sequence of its    *)
(* items in insertion order.                                              *)
ShippedData ==
    [name |-> "Alexander Pieter Schram",
     title |-> "Sports Analytics | Tracking & Modeling",
     location |-> "Amsterdam, NL",
     email |-> "apschram@gmail.com",
     phone |-> "+31 6 52 36 73 57",
     summary |-> "Sports data leader focused on tracking analytics, model design, and delivery. Built end-to-end pipelines and coach-facing tools; values reproducibility and measurable impact.",
     experience |-> <<
        Job("PFF", "Sr. Manager Team Services & Analysis", "2021-present",
            <<"Led analytics delivery for pro clubs across recruitment and performance.",
              "Built trackingxevent fusion workflows and physical metrics reporting.",
              "Improved comms through concise visuals and field-relevant language.">>),
        Job("FC Cincinnati", "Director of Analytics & Strategy", "2019-2021",
            <<"Built the analytics function across player evaluation and match analysis.",
              "Delivered coach-facing products and recruitment decision support.">>),
        Job("remiqz", "Manager Data Science & Lead Developer", "2017-2019",
            <<"Led data science projects and productized analytics pipelines.">>),
        Job("Hypercube", "Consultant", "2014-2017",
            <<"Delivered modeling and analysis for sports/business problems.">>),
        Job("Veneficus", "Data Intern", "2013",
            <<"Supported data preparation and early-stage modeling.">>),
        Job("University of Amsterdam", "Research Assistant", "2011-2013",
            <<"Quantitative research support and analysis.">>) >>,
     tech |-> "Python (pandas, scikit-learn, xgboost), SQL, R, Matplotlib, Shiny, Kalman filters, ETL, model validation/MAER, experiment design",
     providers |-> "Event: PFF, StatsBomb, Wyscout, Opta, InStat | Tracking: Second Spectrum, ChyronHego, SkillCorner, Sportlogiq | GPS: STATSports, Catapult",
     education |-> <<"MSc Econometrics: Free Track -- University of Amsterdam (2014)",
                     "BSc Econometrics & Operations Research -- University of Amsterdam (2013)">>,
     languages |-> "Dutch (native), English (C2)",
     links |-> <<Link("PDF", PDF_URL), Link("LinkedIn", LINKEDIN_URL),
                 Link("GitHub", GITHUB_URL)>>]

(* The records the model runs build_pdf on: the record of the source, and *)
(* that record cut to one experience entry (BaseData) with one group of   *)
(* fields varied at a time.                                               *)
Without(d, k) == [x \in DOMAIN d \ {k} |-> d[x]]
With(d, k, v) == (k :> v) @@ d
Vary(S, k, vals) == UNION {{Without(d, k)} \cup {With(d, k, v) : v \in vals} : d \in S}
BaseData == With(ShippedData, "experience", SubSeq(ShippedData.experience, 3, 3))

LinkMaps ==
    LET a == Link("PDF", PDF_URL)
        b == Link("LinkedIn", LINKEDIN_URL)
        e == Link("LinkedIn", "")
        n == Link("PDF", None)
    IN  {<<>>, <<a>>, <<e>>, <<n>>, <<a, b>>, <<b, a>>, <<a, e>>, <<e, a>>,
         <<n, b>>, <<n, e>>, ShippedData.links,
         <<Link("GitHub", GITHUB_URL), e, a>>}

BulletTexts == <<"bullet 1", "bullet 2", "bullet 3", "bullet 4">>
BulletLists == {SubSeq(BulletTexts, 1, n) : n \in 0..MaxBullets}
(* the entry at position i, with the given bullets or, for NoBullets, *)
(* without the bullets key                                           *)
Companies == <<"A", "B", "C", "D">>
NoBullets == <<None>>
SampleJob(i, b) ==
    IF b = NoBullets
    THEN Without(Job(Companies[i], "role", "dates", <<>>), "bullets")
    ELSE Job(Companies[i], "role", "dates", b)
ExperienceLists ==
    UNION {{[i \in 1..n |-> SampleJob(i, f[i])] : f \in [1..n -> BulletLists \cup {NoBullets}]} :
              n \in 0..MaxJobs}

ContactRecords ==
    Vary(Vary(Vary(Vary({BaseData}, "email", {"", "e@x"}), "phone", {"", "+31"}),
              "location", {"", "NL"}), "links", LinkMaps)
SectionRecords ==
    Vary(Vary(Vary(Vary(Vary(Vary({BaseData},
        "summary", {"", "S"}), "tech", {"", "T"}), "education", {<<>>, <<"E1", "E2">>}),
        "languages", {"", "NL"}), "providers", {"", "P"}),
        "experience", {<<>>, <<Job("A", "role", "dates", <<"bullet 1">>)>>})
ExperienceRecords ==
    LET S == {With(BaseData, "experience", e) : e \in ExperienceLists}
    IN  S \cup {Without(d, "summary") : d \in S}
Records == {ShippedData} \cup ContactRecords \cup SectionRecords \cup ExperienceRecords
HeadshotPaths == {None, "", "AS.png"}
Inputs ==
    {[data |-> d, headshot |-> None] : d \in Records}
        \cup {[data |-> d, headshot |-> h] :
                d \in {ShippedData, Without(ShippedData, "summary")}, h \in HeadshotPaths}

----------------------------------------------------------------------------
(* Blocks of the layout library, as the values build_pdf constructs *)

Paragraph(text, style) == [kind |-> "Paragraph", text |-> text, style |-> style]
Spacer(width, height) == [kind |-> "Spacer", width |-> width, height |-> height]
Image(src, width, height) == [kind |-> "Image", src |-> src, width |-> width, height |-> height]
KeepInFrame(content, hAlign) == [kind |-> "KeepInFrame", content |-> content, hAlign |-> hAlign]
Table(rows, colWidths, style) ==
    [kind |-> "Table", rows |-> rows, colWidths |-> colWidths, style |-> style]
FileSource(path) == [type |-> "file", path |-> path]

(* The paragraph styles build_pdf adds; sizes in tenths of a point *)
Styles ==
    [NameLine |-> [fontName |-> BOLD_FONT, fontSize |-> 200, textColor |-> "black"],
     SubLine |-> [fontName |-> BASE_FONT, fontSize |-> 110, textColor |-> "grey"],
     H2Accent |-> [fontName |-> BOLD_FONT, fontSize |-> 125, textColor |-> "#0B7A75"],
     BodyMain |-> [fontName |-> BASE_FONT, fontSize |-> 105, textColor |-> "black"],
     BulletItem |-> [fontName |-> BASE_FONT, fontSize |-> 105, textColor |-> "black"],
     SmallNote |-> [fontName |-> BASE_FONT, fontSize |-> 95, textColor |-> "grey"]]

(* str.join *)
RECURSIVE Join(_, _)
Join(sep, s) ==
    IF s = <<>> THEN ""
    ELSE IF Len(s) = 1 THEN s[1]
    ELSE s[1] \o sep \o Join(sep, Tail(s))

(* Exceptions *)
NoExc == [type |-> "none", arg |-> ""]
KeyError(k) == [type |-> "KeyError", arg |-> k]
QrError == [type |-> "DataOverflowError", arg |-> LANDING_URL]
LayoutError == [type |-> "LayoutError", arg |-> ""]
WriteError == [type |-> "OSError", arg |-> OUTPUT_PDF]

----------------------------------------------------------------------------
(* HELPERS *)

(* make_qr: the PNG bytes of the QR symbol of url, rewound to position 0 *)
make_qr(url, box_size) ==
    [type |-> "BytesIO", format |-> "PNG", data |-> url, error_correction |-> "M",
     box_size |-> box_size, border |-> 2, pos |-> 0]
(* what a QR reader yields from the image *)
QrDecode(bio) == bio.data

(* date.strftime("%Y.%m.%d") *)
Pad2(n) == IF n < 10 THEN "0" \o ToString(n) ELSE ToString(n)
strftime(d) == ToString(d.year) \o "." \o Pad2(d.month) \o "." \o Pad2(d.day)

(* The canvas: the current font, size and fill colour, the stack of saved *)
(* states and the drawing operations issued on the page.                  *)
NewPageCanvas ==
    [font |-> "Helvetica", size |-> 12, fill |-> "black", stack |-> <<>>, ops |-> <<>>]
GState(c) == [font |-> c.font, size |-> c.size, fill |-> c.fill]
saveState(c) == [c EXCEPT !.stack = <<GState(c)>> \o c.stack]
restoreState(c) ==
    [c EXCEPT !.font = c.stack[1].font, !.size = c.stack[1].size,
              !.fill = c.stack[1].fill, !.stack = Tail(c.stack)]
setFont(c, name, size) == [c EXCEPT !.font = name, !.size = size]
setFillColor(c, colour) == [c EXCEPT !.fill = colour]
DrawOp(c, op, x, y, text) ==
    [c EXCEPT !.ops = Append(c.ops, [op |-> op, x |-> x, y |-> y, text |-> text,
                                     font |-> c.font, size |-> c.size, fill |-> c.fill])]
drawString(c, x, y, text) == DrawOp(c, "drawString", x, y, text)
drawRightString(c, x, y, text) == DrawOp(c, "drawRightString", x, y, text)

(* A4[0] in millimetres *)
A4_WIDTH == 210

(* variant: the saved state is never restored *)
footer_noRestore(c, date) ==
    LET c1 == saveState(c)
        c2 == setFont(c1, BASE_FONT, 8)
        c3 == setFillColor(c2, "grey")
        c4 == drawString(c3, 18, 12, "Generated with Python -- v" \o strftime(date))
    IN  drawRightString(c4, A4_WIDTH - 18, 12, "(c) Alexander Schram")
(* footer(canvas, doc), with the date date.today() answered *)
footer(c, date) ==
    LET c1 == saveState(c)
        c2 == setFont(c1, BASE_FONT, 8)
        c3 == setFillColor(c2, "grey")
        left == "Generated with Python -- v" \o strftime(date)
        right == "(c) Alexander Schram"
        c4 == drawString(c3, 18, 12, left)
        c5 == drawRightString(c4, A4_WIDTH - 18, 12, right)
    IN  restoreState(c5)

----------------------------------------------------------------------------
(* BUILD: the pieces build_pdf computes *)

(* the header's contact entries *)
EmailEntry(email) == "<link href=\"mailto:" \o email \o "\">" \o email \o "</link>"
LinkEntry(l) == "<link href=\"" \o l.url \o "\">" \o l.label \o "</link>"
(* variant: every link becomes an entry, whatever its url *)
LinkParts_unfiltered(links) == [i \in 1..Len(links) |-> LinkEntry(links[i])]
RECURSIVE LinkParts(_)
LinkParts(links) ==
    IF links = <<>> THEN <<>>
    ELSE (IF Truthy(links[1].url) THEN <<LinkEntry(links[1])>> ELSE <<>>)
             \o LinkParts(Tail(links))
FieldParts(d) ==
    (IF Truthy(Get(d, "email")) THEN <<EmailEntry(d.email)>> ELSE <<>>)
        \o (IF Truthy(Get(d, "phone")) THEN <<d.phone>> ELSE <<>>)
        \o (IF Truthy(Get(d, "location")) THEN <<d.location>> ELSE <<>>)
ContactParts(d) == FieldParts(d) \o LinkParts(GetOr(d, "links", <<>>))
ContactParagraph(ps) == Paragraph(Join(" | ", ps), "BodyMain")
LeftStack(d, ps) ==
    <<Paragraph(d.name, "NameLine"), Paragraph(d.title, "SubLine"), Spacer(1, 2),
      ContactParagraph(ps)>>

(* variant: the QR code points at the PDF *)
QrTarget_pdf == PDF_URL
(* the url build_pdf has the QR code point to *)
QrTarget == LANDING_URL
QrImage == Image(make_qr(QrTarget, 6), 28, 28)

(* the rows added below the QR code *)
(* variant: the headshot is added for any configured path *)
HeadshotRows_unchecked(path, exists) ==
    IF Truthy(path)
    THEN <<<<Spacer(1, 2)>>, <<Image(FileSource(path), 28, 28)>>>>
    ELSE <<>>
HeadshotRows(path, exists) ==
    IF Truthy(path) /\ exists
    THEN <<<<Spacer(1, 2)>>, <<Image(FileSource(path), 28, 28)>>>>
    ELSE <<>>

RightTable(cells) ==
    Table(cells, <<"30mm">>,
          [VALIGN |-> "TOP", ALIGN |-> "RIGHT", LEFTPADDING |-> 0, RIGHTPADDING |-> 0,
           TOPPADDING |-> 0, BOTTOMPADDING |-> 0])
HeaderRow(left, cells) ==
    Table(<<<<KeepInFrame(left, "LEFT"), RightTable(cells)>>>>, <<None, "30mm">>,
          [VALIGN |-> "TOP", LEFTPADDING |-> 0, RIGHTPADDING |-> 0, BOTTOMPADDING |-> 0])
HeaderBlocks(left, cells) == <<HeaderRow(left, cells), Spacer(1, 6)>>

(* variant: the section is emitted whenever the key exists *)
SummaryBlocks_keyOnly(d) ==
    IF "summary" \in DOMAIN d
    THEN <<Paragraph("Summary", "H2Accent"), Paragraph(d.summary, "BodyMain"), Spacer(1, 3)>>
    ELSE <<>>
SummaryBlocks(d) ==
    IF Truthy(Get(d, "summary"))
    THEN <<Paragraph("Summary", "H2Accent"), Paragraph(d.summary, "BodyMain"), Spacer(1, 3)>>
    ELSE <<>>

ExperienceHeading == Paragraph("Experience", "H2Accent")
JobHead(job) ==
    "<b>" \o job.company \o " -- " \o job.role \o " (" \o job.dates \o ")</b>"
(* variant: the bullets come out last first *)
BulletBlocks_reversed(bullets) ==
    [i \in 1..Len(bullets) |->
        Paragraph("* " \o bullets[Len(bullets) + 1 - i], "BulletItem")]
BulletBlocks(bullets) ==
    [i \in 1..Len(bullets) |-> Paragraph("* " \o bullets[i], "BulletItem")]
JobBlocks(job) ==
    <<Paragraph(JobHead(job), "BodyMain")>>
        \o BulletBlocks(GetOr(job, "bullets", <<>>))
        \o <<Spacer(1, 1)>>

(* variant: the Technical section is left out when its text is empty *)
LeftColumn_skipEmpty(d) ==
    (IF Truthy(d.tech)
     THEN <<Paragraph("Technical", "H2Accent"), Paragraph(d.tech, "BodyMain"), Spacer(1, 2)>>
     ELSE <<>>)
        \o <<Paragraph("Education", "H2Accent")>>
        \o [i \in 1..Len(d.education) |-> Paragraph(d.education[i], "BodyMain")]
LeftColumn(d) ==
    <<Paragraph("Technical", "H2Accent"), Paragraph(d.tech, "BodyMain"), Spacer(1, 2),
      Paragraph("Education", "H2Accent")>>
        \o [i \in 1..Len(d.education) |-> Paragraph(d.education[i], "BodyMain")]
RightColumn(d) ==
    <<Paragraph("Languages", "H2Accent"), Paragraph(d.languages, "BodyMain"), Spacer(1, 2),
      Paragraph("Data Providers", "H2Accent"), Paragraph(d.providers, "BodyMain")>>
TwoCol(d) ==
    Table(<<<<KeepInFrame(LeftColumn(d), "LEFT"), KeepInFrame(RightColumn(d), "LEFT")>>>>,
          <<None, None>>,
          [VALIGN |-> "TOP", LEFTPADDING |-> 0, RIGHTPADDING |-> 12, TOPPADDING |-> 0,
           BOTTOMPADDING |-> 0])
(* variant: the table comes before both spacers *)
TwoColBlocks_tableFirst(d) == <<TwoCol(d), Spacer(1, 4), Spacer(1, 6)>>
TwoColBlocks(d) == <<Spacer(1, 4), TwoCol(d), Spacer(1, 6)>>
(* the keys the two columns index, in evaluation order *)
ColumnKeys == <<"tech", "education", "languages", "providers">>
MissingColumnKeys(d) == SelectSeq(ColumnKeys, LAMBDA k : k \notin DOMAIN d)

(* variant: the closing note carries the generation date *)
NoteParagraph_dated ==
    Paragraph("Generated with Python -- v" \o strftime(today), "SmallNote")
NoteParagraph ==
    Paragraph("Generated with Python -- links above for PDF | GitHub | LinkedIn.", "SmallNote")

(* The layout engine flows the blocks into the page frame and opens a new *)
(* page when the frame is full: here a frame holds PageCapacity blocks.   *)
Pages(blocks) == (Len(blocks) + PageCapacity - 1) \div PageCapacity

----------------------------------------------------------------------------
(* The state machine *)

NoPrev == [run |-> 0]

Init ==
    /\ \E i \in Inputs : DATA = i.data /\ HEADSHOT_PATH = i.headshot
    /\ exists_answer = FALSE
    /\ today = [year |-> 2026, month |-> 11, day |-> 3]
    /\ out_file = 0
    /\ run = 1
    /\ pc = "start"
    /\ exc = NoExc
    /\ parts = <<>>
    /\ left_stack = <<>>
    /\ right_cells = <<>>
    /\ story = <<>>
    /\ idx = 0
    /\ qr_calls = <<>>
    /\ handed = <<>>
    /\ page = 0
    /\ canvas = NewPageCanvas
    /\ drawn = <<>>
    /\ content_saw = <<>>
    /\ writes = 0
    /\ prev = NoPrev

inputs == <<DATA, HEADSHOT_PATH>>
env == <<today, out_file, writes>>
header_vars == <<parts, left_stack, right_cells, exists_answer, qr_calls>>
render_vars == <<handed, page, canvas, drawn, content_saw>>

(* variant: the failing step is tried again *)
Raise_retry(e) == exc' = e /\ pc' = pc
(* raise e: the run ends at once, nothing catches it *)
Raise(e) == exc' = e /\ pc' = "raised"

(* lines 157-172: styles, frame, document template, empty story *)
Setup ==
    /\ pc = "start"
    /\ story' = <<>>
    /\ pc' = "contact"
    /\ UNCHANGED <<inputs, env, run, exc, header_vars, idx, render_vars, prev>>

(* lines 175-188: name, title and contact line *)
Contact ==
    /\ pc = "contact"
    /\ parts' = ContactParts(DATA)
    /\ left_stack' = LeftStack(DATA, parts')
    /\ pc' = "qr"
    /\ UNCHANGED <<inputs, env, run, exc, right_cells, exists_answer, qr_calls, story, idx,
                   render_vars, prev>>

(* lines 191-194: the QR image becomes the first row of the right stack *)
MakeQr ==
    /\ pc = "qr"
    /\ qr_calls' = Append(qr_calls, QrTarget)
    /\ right_cells' = <<<<QrImage>>>>
    /\ pc' = "headshot"
    /\ UNCHANGED <<inputs, env, run, exc, parts, left_stack, exists_answer, story, idx,
                   render_vars, prev>>

(* line 191: the encoder raises *)
MakeQrFails ==
    /\ pc = "qr"
    /\ qr_calls' = Append(qr_calls, QrTarget)
    /\ Raise(QrError)
    /\ UNCHANGED <<inputs, env, run, parts, left_stack, right_cells, exists_answer, story,
                   idx, render_vars, prev>>

(* lines 195-196: os.path.exists is asked only for a truthy path *)
Headshot ==
    /\ pc = "headshot"
    /\ \E answer \in (IF Truthy(HEADSHOT_PATH) THEN BOOLEAN ELSE {FALSE}) :
          /\ exists_answer' = answer
          /\ right_cells' = right_cells \o HeadshotRows(HEADSHOT_PATH, answer)
    /\ pc' = "header"
    /\ UNCHANGED <<inputs, env, run, exc, parts, left_stack, qr_calls, story, idx,
                   render_vars, prev>>

(* lines 198-216 *)
Header ==
    /\ pc = "header"
    /\ story' = story \o HeaderBlocks(left_stack, right_cells)
    /\ pc' = "summary"
    /\ UNCHANGED <<inputs, env, run, exc, header_vars, idx, render_vars, prev>>

(* lines 219-224 *)
Summary ==
    /\ pc = "summary"
    /\ story' = story \o SummaryBlocks(DATA)
    /\ pc' = "experience"
    /\ UNCHANGED <<inputs, env, run, exc, header_vars, idx, render_vars, prev>>

(* lines 227-228: the heading is appended before DATA["experience"] is read *)
Experience ==
    /\ pc = "experience"
    /\ story' = Append(story, ExperienceHeading)
    /\ IF "experience" \in DOMAIN DATA
       THEN pc' = "jobs" /\ idx' = 1 /\ exc' = exc
       ELSE Raise(KeyError("experience")) /\ idx' = idx
    /\ UNCHANGED <<inputs, env, run, header_vars, render_vars, prev>>

(* lines 229-233: one iteration of the loop over the experience entries *)
NextJob ==
    /\ pc = "jobs"
    /\ idx <= Len(DATA.experience)
    /\ story' = story \o JobBlocks(DATA.experience[idx])
    /\ idx' = idx + 1
    /\ UNCHANGED <<inputs, env, run, pc, exc, header_vars, render_vars, prev>>

(* lines 236-263: the loop is over; the two columns *)
TwoColumns ==
    /\ pc = "jobs"
    /\ idx > Len(DATA.experience)
    /\ IF MissingColumnKeys(DATA) = <<>>
       THEN story' = story \o TwoColBlocks(DATA) /\ pc' = "note" /\ exc' = exc
       ELSE Raise(KeyError(MissingColumnKeys(DATA)[1])) /\ story' = story
    /\ UNCHANGED <<inputs, env, run, header_vars, idx, render_vars, prev>>

(* line 264 *)
FooterNote ==
    /\ pc = "note"
    /\ story' = Append(story, NoteParagraph)
    /\ pc' = "build"
    /\ UNCHANGED <<inputs, env, run, exc, header_vars, idx, render_vars, prev>>

(* line 266: doc.build(story) starts the first page *)
Build ==
    /\ pc = "build"
    /\ handed' = Append(handed, story)
    /\ page' = 1
    /\ pc' = "page_begin"
    /\ UNCHANGED <<inputs, env, run, exc, header_vars, story, idx, canvas, drawn,
                   content_saw, prev>>

(* the page template's onPage callback, on the fresh canvas of the page *)
PageFooter ==
    /\ pc = "page_begin"
    /\ \E d \in today.day..MaxDay : today' = [today EXCEPT !.day = d]
    /\ canvas' = footer(NewPageCanvas, today')
    /\ drawn' = Append(drawn, canvas'.ops)
    /\ pc' = "page_content"
    /\ UNCHANGED <<inputs, out_file, writes, run, exc, header_vars, story, idx, handed,
                   page, content_saw, prev>>

(* the page's blocks are drawn; a further page follows while blocks remain *)
PageContent ==
    /\ pc = "page_content"
    /\ content_saw' = Append(content_saw, GState(canvas))
    /\ IF page < Pages(handed[1])
       THEN page' = page + 1 /\ pc' = "page_begin"
       ELSE page' = page /\ pc' = "save"
    /\ UNCHANGED <<inputs, env, run, exc, header_vars, story, idx, handed, canvas, drawn,
                   prev>>

(* a block does not fit the frame: the layout engine raises *)
LayoutFails ==
    /\ pc = "page_content"
    /\ Raise(LayoutError)
    /\ UNCHANGED <<inputs, env, run, header_vars, story, idx, render_vars, prev>>

(* the layout engine writes the document to the output path *)
Save ==
    /\ pc = "save"
    /\ out_file' = run
    /\ writes' = writes + 1
    /\ pc' = "done"
    /\ UNCHANGED <<inputs, today, run, exc, header_vars, story, idx, render_vars, prev>>

(* the output path cannot be written *)
SaveFails ==
    /\ pc = "save"
    /\ Raise(WriteError)
    /\ UNCHANGED <<inputs, env, run, header_vars, story, idx, render_vars, prev>>

(* the program is run again on the same record and configuration *)
Rerun ==
    /\ pc = "done"
    /\ run < MaxRuns
    /\ prev' = [run |-> run, handed |-> handed, drawn |-> drawn, exists |-> exists_answer,
                qr_calls |-> qr_calls]
    /\ run' = run + 1
    /\ pc' = "start"
    /\ exists_answer' = FALSE
    /\ parts' = <<>>
    /\ left_stack' = <<>>
    /\ right_cells' = <<>>
    /\ story' = <<>>
    /\ idx' = 0
    /\ qr_calls' = <<>>
    /\ handed' = <<>>
    /\ page' = 0
    /\ canvas' = NewPageCanvas
    /\ drawn' = <<>>
    /\ content_saw' = <<>>
    /\ writes' = 0
    /\ UNCHANGED <<inputs, today, out_file, exc>>

Next ==
    \/ Setup
    \/ Contact
    \/ MakeQr
    \/ MakeQrFails
    \/ Headshot
    \/ Header
    \/ Summary
    \/ Experience
    \/ NextJob
    \/ TwoColumns
    \/ FooterNote
    \/ Build
    \/ PageFooter
    \/ PageContent
    \/ LayoutFails
    \/ Save
    \/ SaveFails
    \/ Rerun

Spec == Init /\ [][Next]_vars

----------------------------------------------------------------------------
(* Vocabulary of the properties *)

(* positions of a run at which the named step has been taken *)
AfterHandOff == {"page_begin", "page_content", "save", "done"}
StoryComplete == {"build"} \cup AfterHandOff
AfterColumns == {"note"} \cup StoryComplete
AfterExperience == {"jobs"} \cup AfterColumns
AfterSummary == {"experience"} \cup AfterExperience
AfterHeader == {"summary"} \cup AfterSummary
AfterHeadshot == {"header"} \cup AfterHeader

RECURSIVE ConcatAll(_)
ConcatAll(seqs) == IF seqs = <<>> THEN <<>> ELSE Head(seqs) \o ConcatAll(Tail(seqs))

(* every block of a block list, the blocks nested in tables and stacks included *)
RECURSIVE Flat(_)
Flat(blocks) ==
    IF blocks = <<>> THEN <<>>
    ELSE LET b == Head(blocks)
             inner == IF b.kind = "Table" THEN Flat(ConcatAll(b.rows))
                      ELSE IF b.kind = "KeepInFrame" THEN Flat(b.content)
                      ELSE <<>>
         IN  <<b>> \o inner \o Flat(Tail(blocks))

Range(s) == {s[i] : i \in 1..Len(s)}
Heading(text) == [kind |-> "Paragraph", text |-> text, style |-> "H2Accent"]
HasHeading(blocks, text) == Heading(text) \in Range(Flat(blocks))
IsText(k) == k \in {"summary", "tech", "languages", "providers"}
EmptyOrAbsent(k) ==
    \/ k \notin DOMAIN DATA
    \/ IsText(k) /\ DATA[k] = ""
    \/ ~IsText(k) /\ Len(DATA[k]) = 0
SummaryPresent == ~EmptyOrAbsent("summary")
(* the two column stacks, once the two-column table is in the story *)
ColumnTable ==
    CHOOSE b \in Range(story) : b.kind = "Table" /\ b.colWidths = <<None, None>>
ColumnStack(i) == ColumnTable.rows[1][i].content
SectionHeading ==
    [summary |-> "Summary", experience |-> "Experience", tech |-> "Technical",
     education |-> "Education", languages |-> "Languages", providers |-> "Data Providers"]
RequiredSections == {"experience", "tech", "education", "languages", "providers"}

----------------------------------------------------------------------------
(* C1, as stated: every optional section (summary, experience, technical,  *)
(* education, languages, data providers) whose value is empty or absent is *)
(* skipped: its heading is nowhere in the block list and the run does not  *)
(* fail on it.                                                             *)
C1_EmptySectionsSkipped ==
    \A k \in DOMAIN SectionHeading :
        EmptyOrAbsent(k) =>
            /\ ~HasHeading(story, SectionHeading[k])
            /\ ~(pc = "raised" /\ exc = KeyError(k))

(* C1, amended: only the summary is skipped when empty or absent.  The     *)
(* Experience heading and the Technical, Education, Languages and Data     *)
(* Providers headings are emitted whatever their values, also empty ones,  *)
(* and a record that lacks one of these five keys fails with a KeyError on *)
(* that key before the story is complete.                                  *)
C1_OnlySummaryIsSkipped ==
    /\ EmptyOrAbsent("summary") =>
          ~HasHeading(story, "Summary") /\ exc # KeyError("summary")
    /\ pc \in AfterExperience => Heading("Experience") \in Range(story)
    /\ pc \in AfterColumns =>
          /\ Heading("Technical") \in Range(ColumnStack(1))
          /\ Heading("Education") \in Range(ColumnStack(1))
          /\ Heading("Languages") \in Range(ColumnStack(2))
          /\ Heading("Data Providers") \in Range(ColumnStack(2))
    /\ \A k \in RequiredSections :
          /\ k \notin DOMAIN DATA => pc \notin AfterColumns
          /\ (pc = "raised" /\ exc = KeyError(k)) => k \notin DOMAIN DATA
          /\ (pc = "raised" /\ exc.type = "KeyError") => exc.arg \in RequiredSections

(* a finished run on a record whose six sections are all empty or absent *)
C1_Witness ==
    /\ pc = "done"
    /\ \A k \in DOMAIN SectionHeading : EmptyOrAbsent(k)

(* C2: once the summary step has run, an empty or absent summary leaves no *)
(* Summary heading anywhere and nothing between the header and the         *)
(* Experience heading; a non-empty summary puts exactly one Summary        *)
(* heading in the list, immediately followed by the summary body.          *)
C2_SummaryIffNonEmpty ==
    pc \in AfterSummary =>
        IF SummaryPresent
        THEN /\ \E i \in 1..(Len(story) - 1) :
                   /\ story[i] = Heading("Summary")
                   /\ story[i + 1] = Paragraph(DATA.summary, "BodyMain")
             /\ Len(SelectSeq(Flat(story), LAMBDA b : b = Heading("Summary"))) = 1
        ELSE /\ ~HasHeading(story, "Summary")
             /\ Len(story) >= 3 => story[3] = ExperienceHeading

(* a finished run on a record whose summary key holds the empty text *)
C2_Witness ==
    /\ pc = "done"
    /\ "summary" \in DOMAIN DATA
    /\ DATA.summary = ""

----------------------------------------------------------------------------
(* the contact fields and links that are present and non-empty, in order *)
PresentFields ==
    SelectSeq(<<"email", "phone", "location">>,
              LAMBDA k : k \in DOMAIN DATA /\ DATA[k] \notin {"", None})
GivenLinks == IF "links" \in DOMAIN DATA THEN DATA.links ELSE <<>>
NonEmptyLinks == SelectSeq(GivenLinks, LAMBDA l : l.url \notin {"", None})
FieldEntry(k) == IF k = "email" THEN EmailEntry(DATA.email) ELSE DATA[k]
(* s[1], ..., s[n] with one separator between neighbours *)
RECURSIVE Separated(_, _)
Separated(s, n) ==
    IF n = 0 THEN ""
    ELSE IF n = 1 THEN s[1]
    ELSE Separated(s, n - 1) \o " | " \o s[n]

(* C3: the contact line is the separator-joined text of exactly one entry  *)
(* per non-empty field among email, phone, location, in that order, then   *)
(* one entry per link with a non-empty url, in the mapping's order; it is  *)
(* the fourth block of the left header stack, which the header row holds.  *)
C3_ContactLine ==
    left_stack # <<>> =>
        /\ Len(parts) = Len(PresentFields) + Len(NonEmptyLinks)
        /\ \A i \in 1..Len(PresentFields) : parts[i] = FieldEntry(PresentFields[i])
        /\ \A j \in 1..Len(NonEmptyLinks) :
              parts[Len(PresentFields) + j] = LinkEntry(NonEmptyLinks[j])
        /\ left_stack[4] = Paragraph(Separated(parts, Len(parts)), "BodyMain")
        /\ pc \in AfterHeader => story[1].rows[1][1].content = left_stack

(* a finished run on a record without email whose links hold an empty url *)
(* before a non-empty one                                                  *)
C3_Witness ==
    /\ pc = "done"
    /\ "email" \notin DOMAIN DATA
    /\ Len(GivenLinks) >= 2
    /\ ~Truthy(GivenLinks[1].url)
    /\ Truthy(GivenLinks[2].url)
    /\ Len(parts) >= 2

----------------------------------------------------------------------------
(* the heading and bullet paragraphs after the Experience heading *)
ExperienceParagraphs ==
    LET h == CHOOSE i \in 1..Len(story) : story[i] = ExperienceHeading
    IN  SelectSeq(SubSeq(story, h + 1, Len(story)),
                  LAMBDA b : b.kind = "Paragraph" /\ b.style \in {"BodyMain", "BulletItem"})
BulletsOf(job) == IF "bullets" \in DOMAIN job THEN job.bullets ELSE <<>>
RECURSIVE BulletsBefore(_)
BulletsBefore(i) ==
    IF i = 1 THEN 0 ELSE BulletsBefore(i - 1) + Len(BulletsOf(DATA.experience[i - 1]))
(* where entry i's heading stands among the experience paragraphs *)
HeadAt(i) == i + BulletsBefore(i)

(* C4: once the loop over the experience entries is over, the paragraphs   *)
(* after the Experience heading are, entry by entry in input order, one    *)
(* heading naming the entry followed by one bullet paragraph per bullet of *)
(* that entry in input order (none for an entry without bullets), and      *)
(* nothing else.                                                           *)
C4_ExperienceBlocks ==
    (pc \in AfterExperience /\ idx > Len(DATA.experience)) =>
        LET ps == ExperienceParagraphs
            n == Len(DATA.experience)
        IN  /\ Len(ps) = n + BulletsBefore(n + 1)
            /\ \A i \in 1..n :
                  LET job == DATA.experience[i]
                  IN  /\ ps[HeadAt(i)] = Paragraph(JobHead(job), "BodyMain")
                      /\ \A j \in 1..Len(BulletsOf(job)) :
                            ps[HeadAt(i) + j] =
                                Paragraph("* " \o BulletsOf(job)[j], "BulletItem")

(* a finished run on two entries: one without a bullets key, then one with *)
(* two bullets                                                             *)
C4_Witness ==
    /\ pc = "done"
    /\ Len(DATA.experience) = 2
    /\ "bullets" \notin DOMAIN DATA.experience[1]
    /\ Len(BulletsOf(DATA.experience[2])) = 2

----------------------------------------------------------------------------
(* the images of the right-hand header stack, top to bottom *)
StackImages == SelectSeq(ConcatAll(right_cells), LAMBDA b : b.kind = "Image")
HeadshotStepTaken ==
    \/ pc \in AfterHeadshot
    \/ pc = "raised" /\ exc # QrError

(* C5: after the headshot step the right-hand stack holds exactly one      *)
(* image, the QR code, when no path is configured or os.path.exists        *)
(* answered no; it holds exactly two, the QR code and below it the         *)
(* headshot read from the path, when a path is configured and exists; the  *)
(* header row carries that stack.                                          *)
C5_HeaderImages ==
    HeadshotStepTaken =>
        /\ IF HEADSHOT_PATH \notin {None, ""} /\ exists_answer
           THEN /\ Len(StackImages) = 2
                /\ StackImages[1].src.type = "BytesIO"
                /\ StackImages[2].src = FileSource(HEADSHOT_PATH)
           ELSE /\ Len(StackImages) = 1
                /\ StackImages[1].src.type = "BytesIO"
        /\ pc \in AfterHeader => story[1].rows[1][2].rows = right_cells

(* a finished run with a configured path whose file exists *)
C5_Witness ==
    /\ pc = "done"
    /\ HEADSHOT_PATH = "AS.png"
    /\ exists_answer
    /\ Len(right_cells) = 3

----------------------------------------------------------------------------
SameButDate(a, b) ==
    /\ Len(a) = Len(b)
    /\ \A i \in 1..Len(a) :
          /\ Len(a[i]) = Len(b[i])
          /\ \A j \in 1..Len(a[i]) :
                \/ a[i][j] = b[i][j]
                \/ /\ j = 1
                   /\ [a[i][j] EXCEPT !.text = ""] = [b[i][j] EXCEPT !.text = ""]

(* C6, as stated: for a fixed record and configuration the second of two   *)
(* successive runs hands the layout engine the block list the first run    *)
(* handed it, and its footers differ from the first run's in the date of   *)
(* the left label at most.                                                 *)
C6_RunsIdenticalButDate ==
    prev.run > 0 =>
        /\ pc \in AfterHandOff => handed = prev.handed
        /\ pc = "done" => SameButDate(drawn, prev.drawn)

(* C6, amended: the same, provided os.path.exists gave the same answer for *)
(* the configured headshot path in both runs (it is not asked when no path *)
(* is configured); whatever it answered, the two block lists agree in      *)
(* everything but the right-hand header stack, the QR payload is the same, *)
(* and the footers differ in the date of the left label at most.           *)
C6_RunsIdenticalButDateAndHeadshot ==
    prev.run > 0 =>
        /\ pc \in AfterHandOff =>
              /\ prev.exists = exists_answer => handed = prev.handed
              /\ Tail(story) = Tail(prev.handed[1])
              /\ story[1].rows[1][1] = prev.handed[1][1].rows[1][1]
              /\ story[1].rows[1][2].rows[1] = prev.handed[1][1].rows[1][2].rows[1]
              /\ qr_calls = prev.qr_calls
        /\ pc = "done" => SameButDate(drawn, prev.drawn)

(* a second run finished on another day than the first, the headshot file  *)
(* present in both                                                         *)
C6_Witness ==
    /\ run = 2
    /\ pc = "done"
    /\ exists_answer
    /\ prev.exists
    /\ drawn[1][1].text # prev.drawn[1][1].text

----------------------------------------------------------------------------
(* C7: a run calls make_qr at most once and, past that step, exactly once, *)
(* with the landing-page url; the first row of the header's right-hand     *)
(* stack is the image made from it, the only QR image of the block list,   *)
(* and it decodes to the landing-page url, not to the PDF, LinkedIn or     *)
(* GitHub url.                                                             *)
C7_QrPayload ==
    /\ Len(qr_calls) <= 1
    /\ pc \notin {"start", "contact", "qr"} =>
          qr_calls = <<"https://apschram.github.io/curriculum-vitae/">>
    /\ pc \in AfterHeader =>
          LET img == story[1].rows[1][2].rows[1][1]
              qrs == SelectSeq(Flat(story),
                               LAMBDA b : b.kind = "Image" /\ b.src.type = "BytesIO")
          IN  /\ qrs = <<img>>
              /\ QrDecode(img.src) = "https://apschram.github.io/curriculum-vitae/"
              /\ QrDecode(img.src) = LANDING_URL
              /\ QrDecode(img.src) \notin {PDF_URL, LINKEDIN_URL, GITHUB_URL}

(* a second run, finished, with its one call of the encoder *)
C7_Witness ==
    /\ run = 2
    /\ pc = "done"
    /\ qr_calls = <<LANDING_URL>>

----------------------------------------------------------------------------
(* C8: nothing is tried twice (the encoder, the layout engine and the file *)
(* write run at most once per run); a raised exception ends the run (no    *)
(* step is enabled after it), with nothing written by this run and the     *)
(* output file as the previous run left it; a failure of the encoder or a  *)
(* missing key leaves the layout engine uninvoked, the encoder's failure   *)
(* arriving as raised; and the one write happens in a run that handed its  *)
(* story to the layout engine and finished.                                *)
C8_FailuresPropagate ==
    /\ Len(qr_calls) <= 1 /\ Len(handed) <= 1 /\ writes <= 1
    /\ writes = 1 => pc = "done" /\ Len(handed) = 1 /\ out_file = run
    /\ pc = "raised" =>
          /\ exc # NoExc
          /\ ~ENABLED Next
          /\ writes = 0
          /\ out_file = prev.run
    /\ (pc = "raised" /\ exc.type \in {"DataOverflowError", "KeyError"}) => handed = <<>>
    /\ (pc = "raised" /\ right_cells = <<>>) => exc = QrError /\ story = <<>>
    /\ pc \notin (AfterHandOff \cup {"raised"}) => handed = <<>> /\ writes = 0

(* a second run in which the encoder failed, the first run's file in place *)
C8_Witness ==
    /\ run = 2
    /\ pc = "raised"
    /\ exc = QrError
    /\ out_file = 1

----------------------------------------------------------------------------
(* the number of top-level blocks of the first i - 1 experience entries *)
JobBlocksBefore(i) == 2 * (i - 1) + BulletsBefore(i)

(* C9: the complete story is, in this order and with nothing else: the     *)
(* header row, a 6 mm spacer, for a non-empty summary its heading, body    *)
(* and a 3 mm spacer, the Experience heading, per entry in input order its *)
(* heading, its bullets and a 1 mm spacer, a 4 mm spacer, the two-column   *)
(* table, a 6 mm spacer and the small-note paragraph; the layout engine is *)
(* invoked once, with that complete story, and not before it is complete.  *)
C9_StoryOrder ==
    /\ Len(handed) <= 1
    /\ pc \in AfterHandOff => handed = <<story>>
    /\ pc \notin (AfterHandOff \cup {"raised"}) => handed = <<>>
    /\ pc \in StoryComplete =>
          LET s == IF SummaryPresent THEN 3 ELSE 0
              n == Len(DATA.experience)
              e == 3 + s + JobBlocksBefore(n + 1)
          IN  /\ Len(story) = e + 4
              /\ story[1].kind = "Table"
              /\ story[1].rows[1][1] = KeepInFrame(left_stack, "LEFT")
              /\ story[1].rows[1][2].rows = right_cells
              /\ story[2] = Spacer(1, 6)
              /\ SummaryPresent =>
                    /\ story[3] = Heading("Summary")
                    /\ story[4] = Paragraph(DATA.summary, "BodyMain")
                    /\ story[5] = Spacer(1, 3)
              /\ story[3 + s] = Heading("Experience")
              /\ \A i \in 1..n :
                    LET job == DATA.experience[i]
                        at == 3 + s + JobBlocksBefore(i) + 1
                        b == Len(BulletsOf(job))
                    IN  /\ story[at] = Paragraph(JobHead(job), "BodyMain")
                        /\ \A j \in 1..b :
                              story[at + j] = Paragraph("* " \o BulletsOf(job)[j], "BulletItem")
                        /\ story[at + b + 1] = Spacer(1, 1)
              /\ story[e + 1] = Spacer(1, 4)
              /\ story[e + 2].kind = "Table"
              /\ story[e + 2].colWidths = <<None, None>>
              /\ story[e + 3] = Spacer(1, 6)
              /\ story[e + 4].kind = "Paragraph"
              /\ story[e + 4].style = "SmallNote"

(* a finished run on the record of the source *)
C9_Witness ==
    /\ pc = "done"
    /\ DATA = ShippedData
    /\ Len(story) > PageCapacity

----------------------------------------------------------------------------
(* C10: the footer has run once for every page begun, so once per page of  *)
(* a rendered document, also when the story needs several pages; each run  *)
(* of it draws two labels, the dated one left-aligned at 18 mm and the     *)
(* copyright one right-aligned 18 mm from the right edge, both 12 mm above *)
(* the page bottom; and the content of every page starts from the canvas   *)
(* state of a fresh page, nothing left on the stack of saved states.       *)
C10_FooterOncePerPage ==
    /\ pc = "page_begin" => Len(drawn) = page - 1
    /\ pc = "page_content" => Len(drawn) = page
    /\ pc \in {"save", "done"} =>
          Len(drawn) = Pages(story) /\ Len(content_saw) = Pages(story)
    /\ \A i \in 1..Len(drawn) :
          /\ Len(drawn[i]) = 2
          /\ drawn[i][1].op = "drawString"
          /\ drawn[i][1].x = 18
          /\ \E d \in 3..MaxDay :
                drawn[i][1].text =
                    "Generated with Python -- v" \o strftime([year |-> 2026, month |-> 11, day |-> d])
          /\ drawn[i][2].op = "drawRightString"
          /\ drawn[i][2].x = A4_WIDTH - 18
          /\ drawn[i][2].text = "(c) Alexander Schram"
          /\ drawn[i][1].y = 12
          /\ drawn[i][2].y = drawn[i][1].y
    /\ \A i \in 1..Len(content_saw) : content_saw[i] = GState(NewPageCanvas)
    /\ canvas.stack = <<>>

(* a finished run whose story took two pages *)
C10_Witness ==
    /\ pc = "done"
    /\ Len(drawn) = 2
    /\ Len(content_saw) = 2

====
